---- MODULE Spec2Model ----
(***************************************************************************)
(* UnityAspectLock: a Win32 DLL that subclasses the main window of the     *)
(* process and rewrites the candidate rectangle of every WM_SIZING message *)
(* so that the window keeps a fixed width:height ratio.                    *)
(*                                                                         *)
(* The model follows src/UnityAspectLock.cpp.  The arithmetic of           *)
(* ApplyAspect is IEEE-754 binary32 arithmetic and is modelled bit for     *)
(* bit: a float is a record [neg, m, e] denoting (-1)^neg * m * 2^e with   *)
(* either m = 0 or 2^23 <= m < 2^24, every operation rounds to nearest,    *)
(* ties to even.  Subnormals, infinities and NaN are outside the modelled  *)
(* domain: the inputs below give quotients that are normal numbers, or     *)
(* that underflow all the way to +0.                                       *)
(***************************************************************************)
EXTENDS Integers, Sequences, FiniteSets, TLC

(***************************************************************************)
(* Bounds of the model.                                                    *)
(***************************************************************************)
\* Install is called with every integer-valued aspect component 0..MaxAspect
MaxAspect == 3
\* candidate rectangles take every width and height in -1..MaxDim
MaxDim == 5

(***************************************************************************)
(* binary32                                                                *)
(***************************************************************************)
\* bits of a binary32 significand (the type float of g_aspect)
MantBits == 24
\* the exponent e of the smallest normal binary32, 2^-126 = 2^23 * 2^-149
MinExp == -149

RECURSIVE Pow2(_)
Pow2(n) == IF n <= 0 THEN 1 ELSE 2 * Pow2(n - 1)

RECURSIVE BitLen(_)
BitLen(n) == IF n <= 0 THEN 0 ELSE 1 + BitLen(n \div 2)

FZero == [neg |-> FALSE, m |-> 0, e |-> 0]

\* round-to-nearest, ties-to-even, of (kept + rem/2^s) to an integer
RoundEven(kept, rem, s) ==
    IF s = 0 THEN kept
    ELSE LET half == Pow2(s - 1) IN
         IF rem > half \/ (rem = half /\ kept % 2 = 1) THEN kept + 1 ELSE kept

\* the binary32 nearest to n * 2^e, for an integer 0 <= n < 2^31
Normalize(n, e) ==
    IF n = 0 THEN FZero
    ELSE LET L == BitLen(n) IN
         IF L <= MantBits
         THEN [neg |-> FALSE, m |-> n * Pow2(MantBits - L), e |-> e - (MantBits - L)]
         ELSE LET s == L - MantBits
                  r == RoundEven(n \div Pow2(s), n % Pow2(s), s)
              IN  IF r = Pow2(MantBits)
                  THEN [neg |-> FALSE, m |-> Pow2(MantBits - 1), e |-> e + s + 1]
                  ELSE [neg |-> FALSE, m |-> r, e |-> e + s]

\* the binary32 nearest to (hi * 2^lb + lo) * 2^e, for hi < 2^24 and lo < 2^lb;
\* the sum itself may exceed 31 bits, so it is never formed
RoundSplit(hi, lo, lb, e) ==
    IF hi = 0 THEN Normalize(lo, e)
    ELSE LET s == BitLen(hi) + lb - MantBits IN
         IF s <= 0 THEN Normalize(hi * Pow2(lb) + lo, e)
         ELSE Normalize(RoundEven(hi * Pow2(lb - s) + lo \div Pow2(s),
                                  lo % Pow2(s), s), e + s)

\* (float)n for an int n
IntToFloat(n) ==
    IF n < 0 THEN [Normalize(-n, 0) EXCEPT !.neg = TRUE] ELSE Normalize(n, 0)

\* v <= 0.0f
FLeqZero(a) == a.m = 0 \/ a.neg

\* a < b for a, b >= 0
FLess(a, b) ==
    IF b.m = 0 THEN FALSE
    ELSE IF a.m = 0 THEN TRUE
    ELSE a.e < b.e \/ (a.e = b.e /\ a.m < b.m)

\* n quotient bits of rem/d by long division: <<quotient, remainder>>
RECURSIVE LongDiv(_, _, _, _)
LongDiv(q, rem, d, n) ==
    IF n = 0 THEN <<q, rem>>
    ELSE IF 2 * rem >= d THEN LongDiv(2 * q + 1, 2 * rem - d, d, n - 1)
         ELSE LongDiv(2 * q, 2 * rem, d, n - 1)

\* a / b for a >= 0 and b > 0; a quotient below half the least subnormal is +0
FDiv(a, b) ==
    IF a.m = 0 THEN FZero
    ELSE LET n  == IF a.m >= b.m THEN MantBits - 1 ELSE MantBits
             qr == LongDiv(a.m \div b.m, a.m % b.m, b.m, n)
             up == 2 * qr[2] > b.m \/ (2 * qr[2] = b.m /\ qr[1] % 2 = 1)
             r  == Normalize(IF up THEN qr[1] + 1 ELSE qr[1], a.e - b.e - n)
         IN  IF r.e <= MinExp - MantBits - 1 THEN FZero ELSE r

\* the odd part of a significand and the number of zero bits dropped
RECURSIVE OddPart(_, _)
OddPart(m, k) == IF m > 0 /\ m % 2 = 0 THEN OddPart(m \div 2, k + 1) ELSE <<m, k>>

\* a * b for a, b >= 0, where one factor has a significand of at most 11 bits
\* (an int below 2048 converted to float)
FMul(a, b) ==
    IF a.m = 0 \/ b.m = 0 THEN FZero
    ELSE LET oa == OddPart(a.m, 0)
             ob == OddPart(b.m, 0)
             s  == IF oa[1] <= ob[1] THEN oa ELSE ob
             l  == IF oa[1] <= ob[1] THEN b ELSE a
             se == (IF oa[1] <= ob[1] THEN a.e ELSE b.e) + s[2]
             hp == s[1] * (l.m \div 4096)
             lp == s[1] * (l.m % 4096)
         IN  RoundSplit(hp + lp \div 4096, lp % 4096, 12, se + l.e)

\* fabs(a - b) for a >= 0 and an integer-valued b >= 0, a >= 2^-7
FAbsDiff(a, b) ==
    LET hb == IF b.m = 0 THEN 0 ELSE b.m \div Pow2(-b.e) IN
    IF a.m = 0 THEN b
    ELSE IF a.e >= 0
    THEN LET ia == a.m * Pow2(a.e) IN Normalize(IF ia >= hb THEN ia - hb ELSE hb - ia, 0)
    ELSE LET k  == -a.e
             ia == a.m \div Pow2(k)
             f  == a.m % Pow2(k)
         IN  IF ia >= hb THEN Normalize((ia - hb) * Pow2(k) + f, -k)
             ELSE IF f = 0 THEN Normalize(hb - ia, 0)
             ELSE RoundSplit(hb - ia - 1, Pow2(k) - f, k, -k)

\* std::lround(v) for 0 <= v < 2^31: round half away from zero
LRound(a) ==
    IF a.m = 0 THEN 0
    ELSE IF a.e >= 0 THEN a.m * Pow2(a.e)
    ELSE IF -a.e > MantBits THEN 0
    ELSE LET p == Pow2(-a.e) IN
         IF 2 * (a.m % p) >= p THEN a.m \div p + 1 ELSE a.m \div p

(***************************************************************************)
(* The program                                                             *)
(***************************************************************************)
VARIABLES
    g_hwnd,       \* static HWND g_hwnd
    g_installed,  \* static bool g_installed
    g_aspect,     \* static float g_aspect
    subclassed,   \* the windows that carry SubclassProc under kSubclassId
    msg,          \* the WM_SIZING message being dispatched, if any
    call,         \* the last exported function called, its arguments and result
    lockArgs,     \* the arguments of the Install call that attached the callback
    streak        \* Install calls in a row with valid arguments that returned 1

vars == <<g_hwnd, g_installed, g_aspect, subclassed, msg, call, lockArgs, streak>>
lock == <<g_hwnd, g_installed, g_aspect, subclassed>>

\* nullptr
NULL == 0
\* top-level visible windows the process may own
MaxWindows == 2
Hwnds == 1..MaxWindows

WMSZ_LEFT == 1
WMSZ_RIGHT == 2
WMSZ_TOP == 3
WMSZ_TOPLEFT == 4
WMSZ_TOPRIGHT == 5
WMSZ_BOTTOM == 6
WMSZ_BOTTOMLEFT == 7
WMSZ_BOTTOMRIGHT == 8
Edges == WMSZ_LEFT..WMSZ_BOTTOMRIGHT
Corners == {WMSZ_TOPLEFT, WMSZ_TOPRIGHT, WMSZ_BOTTOMLEFT, WMSZ_BOTTOMRIGHT}

MkRect(l, t, w, h) == [left |-> l, top |-> t, right |-> l + w, bottom |-> t + h]
Width(r) == r.right - r.left
Height(r) == r.bottom - r.top

\* the candidate rectangles the window manager proposes
Rects ==
    {MkRect(3, 5, w, h) : w \in -1..MaxDim, h \in -1..MaxDim}
        \cup {MkRect(0, 0, 1600, 800), MkRect(0, 0, 1600, 850), MkRect(0, 0, 1600, 900),
              MkRect(3, 5, 6, 21)}

\* the arguments Install is called with: small integers, a negative component,
\* 16:9, 2:7, a ratio one ulp above 1, and a pair of positive floats
\* (2^-100, 2^100) whose quotient is +0
ArgPairs ==
    ({IntToFloat(n) : n \in 0..MaxAspect} \X {IntToFloat(n) : n \in 0..MaxAspect})
        \cup {<<IntToFloat(-1), IntToFloat(1)>>, <<IntToFloat(16), IntToFloat(-9)>>,
              <<IntToFloat(16), IntToFloat(9)>>,
              <<IntToFloat(2), IntToFloat(7)>>,
              <<IntToFloat(8388609), IntToFloat(8388608)>>,
              <<[neg |-> FALSE, m |-> 8388608, e |-> -123],
                [neg |-> FALSE, m |-> 8388608, e |-> 77]>>}

\* a cast in place of std::lround
RoundToInt_Truncate(v) ==
    IF v.m = 0 \/ -v.e > MantBits THEN 0
    ELSE IF v.e >= 0 THEN v.m * Pow2(v.e) ELSE v.m \div Pow2(-v.e)

RoundToInt(v) == LRound(v)

\* the captured height in place of the argument
SetHeightFromWidth_FromHeight(newW, h) ==
    LET newH == LRound(FDiv(IntToFloat(h), g_aspect)) IN
    IF newH > 0 THEN newH ELSE h

\* the lambda setHeightFromWidth; h is the captured current height
SetHeightFromWidth(newW, h) ==
    LET newH == RoundToInt(FDiv(IntToFloat(newW), g_aspect)) IN
    IF newH > 0 THEN newH ELSE h

\* the ratio taken as height over width: a division in place of the product
SetWidthFromHeight_Divides(newH, w) ==
    LET newW == LRound(FDiv(IntToFloat(newH), g_aspect)) IN
    IF newW > 0 THEN newW ELSE w

\* no test of the derived width
SetWidthFromHeight_NoCheck(newH, w) == LRound(FMul(IntToFloat(newH), g_aspect))

\* the lambda setWidthFromHeight; w is the captured current width
SetWidthFromHeight(newH, w) ==
    LET newW == RoundToInt(FMul(IntToFloat(newH), g_aspect)) IN
    IF newW > 0 THEN newW ELSE w

\* errH = fabs(idealHFromW - h)
ErrH(w, h) == FAbsDiff(FDiv(IntToFloat(w), g_aspect), IntToFloat(h))
\* errW = fabs(idealWFromH - w)
ErrW(w, h) == FAbsDiff(FMul(IntToFloat(h), g_aspect), IntToFloat(w))

\* errH <= errW in place of errH < errW
DriveByWidth_OrEqual(w, h) == ~FLess(ErrW(w, h), ErrH(w, h))
\* the comparison the other way round
DriveByWidth_Reversed(w, h) == FLess(ErrW(w, h), ErrH(w, h))

DriveByWidth(w, h) == FLess(ErrH(w, h), ErrW(w, h))

\* the bottom and the right edge always move, whatever the corner
ApplyCorner_WrongAnchor(r, edge, w, h) ==
    IF DriveByWidth(w, h)
    THEN [r EXCEPT !.bottom = r.top + SetHeightFromWidth(w, h)]
    ELSE [r EXCEPT !.right = r.left + SetWidthFromHeight(h, w)]

\* the corner cases of the switch
ApplyCorner(r, edge, w, h) ==
    IF DriveByWidth(w, h)
    THEN LET newH == SetHeightFromWidth(w, h) IN
         IF edge \in {WMSZ_TOPLEFT, WMSZ_TOPRIGHT}
         THEN [r EXCEPT !.top = r.bottom - newH]
         ELSE [r EXCEPT !.bottom = r.top + newH]
    ELSE LET newW == SetWidthFromHeight(h, w) IN
         IF edge \in {WMSZ_TOPLEFT, WMSZ_BOTTOMLEFT}
         THEN [r EXCEPT !.left = r.right - newW]
         ELSE [r EXCEPT !.right = r.left + newW]

ApplyAspect(r, edge) ==
    IF FLeqZero(g_aspect) THEN r
    ELSE LET w == r.right - r.left
             h == r.bottom - r.top
         IN  IF w <= 0 \/ h <= 0 THEN r
             ELSE IF edge \in {WMSZ_TOP, WMSZ_BOTTOM}
             THEN [r EXCEPT !.right = r.left + SetWidthFromHeight(h, w)]
             ELSE IF edge \in {WMSZ_LEFT, WMSZ_RIGHT}
             THEN [r EXCEPT !.bottom = r.top + SetHeightFromWidth(w, h)]
             ELSE IF edge \in Corners
             THEN ApplyCorner(r, edge, w, h)
             ELSE r

NoMsg == [phase |-> "none"]
NoCall == [op |-> "none"]
NoArgs == <<>>

Init ==
    /\ g_hwnd = NULL
    /\ g_installed = FALSE
    /\ g_aspect = FDiv(IntToFloat(9), IntToFloat(16))
    /\ subclassed = {}
    /\ msg = NoMsg
    /\ call = NoCall
    /\ lockArgs = NoArgs
    /\ streak = 0

\* the window looked up before the arguments are validated
InstallResult_LocateFirst(aw, ah, found, ok) ==
    IF g_installed THEN <<g_hwnd, g_installed, g_aspect, subclassed, 1>>
    ELSE IF FLeqZero(aw) \/ FLeqZero(ah)
    THEN <<found, g_installed, g_aspect, subclassed, 0>>
    ELSE IF found = NULL THEN <<found, FALSE, FDiv(aw, ah), subclassed, 0>>
    ELSE IF ~ok THEN <<found, FALSE, FDiv(aw, ah), subclassed, 0>>
    ELSE <<found, TRUE, FDiv(aw, ah), subclassed \cup {found}, 1>>

\* no early return when already installed
InstallResult_NoGuard(aw, ah, found, ok) ==
    IF FLeqZero(aw) \/ FLeqZero(ah)
    THEN <<g_hwnd, g_installed, g_aspect, subclassed, 0>>
    ELSE IF found = NULL THEN <<found, g_installed, FDiv(aw, ah), subclassed, 0>>
    ELSE IF ~ok THEN <<found, g_installed, FDiv(aw, ah), subclassed, 0>>
    ELSE <<found, TRUE, FDiv(aw, ah), subclassed \cup {found}, 1>>

\* UnityAspectLock_Install; found is what FindMainWindowForCurrentProcess returns
\* and ok what SetWindowSubclass returns.  The result is the new
\* <<g_hwnd, g_installed, g_aspect, subclassed, return value>>.
InstallResult(aw, ah, found, ok) ==
    IF g_installed THEN <<g_hwnd, g_installed, g_aspect, subclassed, 1>>
    ELSE IF FLeqZero(aw) \/ FLeqZero(ah)
    THEN <<g_hwnd, g_installed, g_aspect, subclassed, 0>>
    ELSE IF found = NULL THEN <<found, FALSE, FDiv(aw, ah), subclassed, 0>>
    ELSE IF ~ok THEN <<found, FALSE, FDiv(aw, ah), subclassed, 0>>
    ELSE <<found, TRUE, FDiv(aw, ah), subclassed \cup {found}, 1>>

ValidArgs(aw, ah) == ~FLeqZero(aw) /\ ~FLeqZero(ah)

Install(aw, ah, found, ok) ==
    /\ msg = NoMsg
    /\ LET res == InstallResult(aw, ah, found, ok) IN
       /\ g_hwnd' = res[1]
       /\ g_installed' = res[2]
       /\ g_aspect' = res[3]
       /\ subclassed' = res[4]
       /\ call' = [op |-> "Install", aw |-> aw, ah |-> ah, ret |-> res[5]]
       /\ lockArgs' = IF res[2] /\ ~g_installed THEN <<aw, ah>> ELSE lockArgs
       /\ streak' = IF res[5] = 1 /\ ValidArgs(aw, ah)
                    THEN (IF streak >= 1 THEN 2 ELSE 1) ELSE 0
    /\ UNCHANGED msg

\* no RemoveWindowSubclass
UninstallResult_NoDetach ==
    IF ~g_installed THEN <<g_hwnd, g_installed, subclassed>>
    ELSE <<NULL, FALSE, subclassed>>

\* UnityAspectLock_Uninstall: the new <<g_hwnd, g_installed, subclassed>>
UninstallResult ==
    IF ~g_installed THEN <<g_hwnd, g_installed, subclassed>>
    ELSE <<NULL, FALSE, IF g_hwnd # NULL THEN subclassed \ {g_hwnd} ELSE subclassed>>

Uninstall ==
    /\ msg = NoMsg
    /\ g_hwnd' = UninstallResult[1]
    /\ g_installed' = UninstallResult[2]
    /\ subclassed' = UninstallResult[3]
    /\ call' = [op |-> "Uninstall"]
    /\ lockArgs' = IF g_installed THEN NoArgs ELSE lockArgs
    /\ streak' = 0
    /\ UNCHANGED <<g_aspect, msg>>

\* UnityAspectLock_IsInstalled
IsInstalledResult == IF g_installed THEN 1 ELSE 0

IsInstalled ==
    /\ msg = NoMsg
    /\ call' = [op |-> "IsInstalled", ret |-> IsInstalledResult]
    /\ streak' = 0
    /\ UNCHANGED <<g_hwnd, g_installed, g_aspect, subclassed, msg, lockArgs>>

\* the window manager sends WM_SIZING for one frame of a live resize to a
\* window that carries the subclass: lParam is the candidate rect, wParam the edge
DragFrame(hWnd, r, edge) ==
    /\ msg = NoMsg
    /\ hWnd \in subclassed
    /\ msg' = [phase |-> "pending", orig |-> r, cand |-> r, edge |-> edge,
               rect |-> r, pass |-> 1]
    /\ call' = NoCall
    /\ streak' = 0
    /\ UNCHANGED <<g_hwnd, g_installed, g_aspect, subclassed, lockArgs>>

\* SubclassProc for msg == WM_SIZING: ApplyAspect on the rect, return TRUE
SubclassProc ==
    /\ msg.phase = "pending"
    /\ msg' = [msg EXCEPT !.phase = "done", !.rect = ApplyAspect(msg.cand, msg.edge)]
    /\ UNCHANGED <<g_hwnd, g_installed, g_aspect, subclassed, call, lockArgs, streak>>

\* the drag goes on without the pointer moving: the window manager proposes the
\* rect it was handed back, for the same edge
SameFrameAgain ==
    /\ msg.phase = "done"
    /\ msg.pass = 1
    /\ msg' = [phase |-> "pending", orig |-> msg.cand, cand |-> msg.rect,
               edge |-> msg.edge, rect |-> msg.rect, pass |-> 2]
    /\ UNCHANGED <<g_hwnd, g_installed, g_aspect, subclassed, call, lockArgs, streak>>

\* the window manager applies the corrected rect; the message is over
FrameApplied ==
    /\ msg.phase = "done"
    /\ msg' = NoMsg
    /\ UNCHANGED <<g_hwnd, g_installed, g_aspect, subclassed, call, lockArgs, streak>>

Next ==
    \/ \E p \in ArgPairs, found \in {NULL} \cup Hwnds, ok \in BOOLEAN :
          Install(p[1], p[2], found, ok)
    \/ Uninstall
    \/ IsInstalled
    \/ \E hWnd \in Hwnds, r \in Rects, edge \in Edges : DragFrame(hWnd, r, edge)
    \/ SubclassProc
    \/ SameFrameAgain
    \/ FrameApplied

Spec == Init /\ [][Next]_vars

(***************************************************************************)
(* Vocabulary of the properties                                            *)
(***************************************************************************)
Abs(x) == IF x < 0 THEN -x ELSE x

\* SubclassProc has returned from a WM_SIZING message
Done == msg.phase = "done"
CandW == Width(msg.cand)
CandH == Height(msg.cand)

\* a is a positive integer-valued float below 2^24, and its value
IsInt(a) == a.m # 0 /\ ~a.neg /\ a.e <= 0 /\ a.e > -MantBits /\ a.m % Pow2(-a.e) = 0
IntVal(a) == a.m \div Pow2(-a.e)

\* the callback is attached and was attached by Install(AW, AH), AW and AH integers
IntLock == lockArgs # NoArgs /\ IsInt(lockArgs[1]) /\ IsInt(lockArgs[2])
AW == IntVal(lockArgs[1])
AH == IntVal(lockArgs[2])
\* ... integers up to 16
SmallLock == IntLock /\ AW <= 16 /\ AH <= 16

\* w/h is AW/AH within one pixel: |w - h*AW/AH| <= 1 or |h - w*AH/AW| <= 1
WithinOnePixel(w, h) == Abs(w * AH - h * AW) <= AH \/ Abs(h * AW - w * AH) <= AW

\* round-half-away-from-zero of the exact quotient p/q, for p >= 0 and q > 0
ExactRound(p, q) == (2 * p + q) \div (2 * q)

\* the dimension ApplyAspect derives for a rect of positive size w x h, as
\* rounded and before the test newW > 0 / newH > 0
RawWidth(h) == LRound(FMul(IntToFloat(h), g_aspect))
RawHeight(w) == LRound(FDiv(IntToFloat(w), g_aspect))
RawDerived(w, h, edge) ==
    IF edge \in {WMSZ_TOP, WMSZ_BOTTOM} THEN RawWidth(h)
    ELSE IF edge \in {WMSZ_LEFT, WMSZ_RIGHT} THEN RawHeight(w)
    ELSE IF FLess(ErrH(w, h), ErrW(w, h)) THEN RawHeight(w) ELSE RawWidth(h)

\* the candidate rect passes every sanity check of ApplyAspect
Correctable ==
    /\ ~FLeqZero(g_aspect)
    /\ CandW > 0
    /\ CandH > 0
    /\ RawDerived(CandW, CandH, msg.edge) > 0

(***************************************************************************)
(* C1                                                                      *)
(***************************************************************************)
\* C1 as stated: after the Install(AW, AH) that attached the callback, the rect
\* left by the correction of any candidate rect, for any of the eight edges, has
\* width/height equal to AW/AH within one pixel.
C1_EveryRectWithinOnePixel ==
    (Done /\ SmallLock) => WithinOnePixel(Width(msg.rect), Height(msg.rect))

\* C1 amended: the rect left by the correction has width/height equal to AW/AH
\* within one pixel whenever the candidate rect has positive width and height,
\* the stored ratio is positive and the derived dimension rounds to a positive
\* value; AW, AH are the arguments of the Install call that attached the callback.
C1_CorrectedRectWithinOnePixel ==
    (Done /\ SmallLock /\ Correctable)
        => WithinOnePixel(Width(msg.rect), Height(msg.rect))

C1_Witness ==
    /\ Done
    /\ lockArgs = <<IntToFloat(16), IntToFloat(9)>>
    /\ Correctable
    /\ msg.rect # msg.cand
    /\ ~WithinOnePixel(CandW, CandH)

(***************************************************************************)
(* C2                                                                      *)
(***************************************************************************)
\* C2 as stated: a Top or Bottom drag on a rect of positive size sets
\* right = left + round(H * r), a Left or Right drag sets
\* bottom = top + round(W / r), with r = AW/AH, and nothing else changes.
C2_SingleEdgeExactRound ==
    (Done /\ SmallLock /\ CandW > 0 /\ CandH > 0)
        => /\ msg.edge \in {WMSZ_TOP, WMSZ_BOTTOM}
                => msg.rect = [msg.cand EXCEPT
                                 !.right = msg.cand.left + ExactRound(CandH * AW, AH)]
           /\ msg.edge \in {WMSZ_LEFT, WMSZ_RIGHT}
                => msg.rect = [msg.cand EXCEPT
                                 !.bottom = msg.cand.top + ExactRound(CandW * AH, AW)]

\* C2 amended: a Top or Bottom drag on a rect of positive size sets
\* right = left + n, n = lround of the single-precision product H * g_aspect, and
\* a Left or Right drag sets bottom = top + n, n = lround of the single-precision
\* quotient W / g_aspect, where g_aspect is the single-precision quotient of the
\* Install arguments, provided n > 0; when n <= 0 the rect is left as it was.
\* Nothing else changes.  For integer ratios up to 16 n is within half a pixel of
\* the exact H * r (W / r), and (0,0,1600,800), Bottom, 16:9 gives (0,0,1422,800).
C2_SingleEdgeFloatRound ==
    (Done /\ CandW > 0 /\ CandH > 0 /\ ~FLeqZero(g_aspect))
        => /\ msg.edge \in {WMSZ_TOP, WMSZ_BOTTOM}
                => LET n == LRound(FMul(IntToFloat(CandH), g_aspect)) IN
                   /\ msg.rect = IF n > 0
                                 THEN [msg.cand EXCEPT !.right = msg.cand.left + n]
                                 ELSE msg.cand
                   /\ SmallLock => 2 * Abs(n * AH - CandH * AW) <= AH
           /\ msg.edge \in {WMSZ_LEFT, WMSZ_RIGHT}
                => LET n == LRound(FDiv(IntToFloat(CandW), g_aspect)) IN
                   /\ msg.rect = IF n > 0
                                 THEN [msg.cand EXCEPT !.bottom = msg.cand.top + n]
                                 ELSE msg.cand
                   /\ SmallLock => 2 * Abs(n * AW - CandW * AH) <= AW
           /\ (/\ lockArgs = <<IntToFloat(16), IntToFloat(9)>>
               /\ msg.cand = MkRect(0, 0, 1600, 800)
               /\ msg.edge = WMSZ_BOTTOM) => msg.rect = MkRect(0, 0, 1422, 800)

C2_Witness ==
    /\ Done
    /\ lockArgs = <<IntToFloat(16), IntToFloat(9)>>
    /\ msg.cand = MkRect(0, 0, 1600, 800)
    /\ msg.edge = WMSZ_BOTTOM
    /\ msg.rect = MkRect(0, 0, 1422, 800)

(***************************************************************************)
(* C3                                                                      *)
(***************************************************************************)
\* the pixels each interpretation of a corner drag changes
HeightChange(w, h) == Abs(SetHeightFromWidth(w, h) - h)
WidthChange(w, h) == Abs(SetWidthFromHeight(h, w) - w)

\* C3: a corner drag on a rect of positive size is width-driven (left and right
\* kept, height derived from W) exactly when errH < errW, errH and errW being the
\* deviations the code computes, and height-driven (top and bottom kept, width
\* derived from H) otherwise, ties included; the interpretation chosen changes
\* no more pixels than the other one would.
C3_CornerDrive ==
    (Done /\ msg.edge \in Corners /\ CandW > 0 /\ CandH > 0 /\ ~FLeqZero(g_aspect))
        => IF FLess(ErrH(CandW, CandH), ErrW(CandW, CandH))
           THEN /\ msg.rect.left = msg.cand.left
                /\ msg.rect.right = msg.cand.right
                /\ Height(msg.rect) = IF RawHeight(CandW) > 0 THEN RawHeight(CandW)
                                      ELSE CandH
                /\ HeightChange(CandW, CandH) <= WidthChange(CandW, CandH)
           ELSE /\ msg.rect.top = msg.cand.top
                /\ msg.rect.bottom = msg.cand.bottom
                /\ Width(msg.rect) = IF RawWidth(CandH) > 0 THEN RawWidth(CandH)
                                     ELSE CandW
                /\ WidthChange(CandW, CandH) <= HeightChange(CandW, CandH)

C3_Witness ==
    /\ Done
    /\ msg.edge = WMSZ_BOTTOMRIGHT
    /\ lockArgs = <<IntToFloat(16), IntToFloat(9)>>
    /\ msg.cand = MkRect(0, 0, 1600, 850)
    /\ msg.rect = MkRect(0, 0, 1600, 900)

(***************************************************************************)
(* C4                                                                      *)
(***************************************************************************)
\* C4: a corner drag never rewrites the two edges the corner does not name.
C4_CornerAnchors ==
    Done =>
        /\ msg.edge = WMSZ_TOPLEFT
             => msg.rect.right = msg.cand.right /\ msg.rect.bottom = msg.cand.bottom
        /\ msg.edge = WMSZ_TOPRIGHT
             => msg.rect.left = msg.cand.left /\ msg.rect.bottom = msg.cand.bottom
        /\ msg.edge = WMSZ_BOTTOMLEFT
             => msg.rect.right = msg.cand.right /\ msg.rect.top = msg.cand.top
        /\ msg.edge = WMSZ_BOTTOMRIGHT
             => msg.rect.left = msg.cand.left /\ msg.rect.top = msg.cand.top

C4_Witness ==
    /\ Done
    /\ msg.edge = WMSZ_TOPLEFT
    /\ msg.rect.left # msg.cand.left
    /\ msg.rect.top = msg.cand.top

(***************************************************************************)
(* C5                                                                      *)
(***************************************************************************)
\* C5: the correction leaves the rect as it was when its width or height is not
\* positive, the stored ratio is not positive or the derived dimension rounds
\* to a value <= 0, for every edge; a rect of positive size keeps a positive size.
C5_SanityChecksLeaveRect ==
    Done =>
        /\ ~Correctable => msg.rect = msg.cand
        /\ (CandW > 0 /\ CandH > 0) => (Width(msg.rect) > 0 /\ Height(msg.rect) > 0)

C5_Witness ==
    /\ Done
    /\ CandW > 0
    /\ CandH > 0
    /\ ~FLeqZero(g_aspect)
    /\ RawDerived(CandW, CandH, msg.edge) = 0
    /\ msg.rect = msg.cand

(***************************************************************************)
(* C6                                                                      *)
(***************************************************************************)
\* a step that is a call of Install with a non-positive argument
InvalidInstallStep == call'.op = "Install" /\ ~ValidArgs(call'.aw, call'.ah)

\* C6 as stated: in every state Install with a non-positive argument returns 0
\* and changes nothing.
C6_InvalidInstallReturns0 ==
    [][InvalidInstallStep => (call'.ret = 0 /\ UNCHANGED <<lock, lockArgs>>)]_vars

\* C6 amended: Install with a non-positive argument changes nothing in any
\* state; it returns 0 when not installed and 1 when already installed.
C6_InvalidInstallChangesNothing ==
    [][InvalidInstallStep
         => /\ call'.ret = (IF g_installed THEN 1 ELSE 0)
            /\ UNCHANGED <<lock, lockArgs>>]_vars

C6_Witness ==
    /\ call.op = "Install"
    /\ ~ValidArgs(call.aw, call.ah)
    /\ call.ret = 1
    /\ g_installed

(***************************************************************************)
(* C7                                                                      *)
(***************************************************************************)
\* C7: a valid Install that returned 1, followed at once by another valid
\* Install: the second returns 1 and changes nothing, whatever ratio it passes;
\* exactly one window carries the callback.
C7_SecondInstallNoOp ==
    [][(/\ call.op = "Install"
        /\ call.ret = 1
        /\ ValidArgs(call.aw, call.ah)
        /\ call'.op = "Install"
        /\ ValidArgs(call'.aw, call'.ah))
         => /\ call'.ret = 1
            /\ UNCHANGED <<lock, lockArgs>>
            /\ g_installed'
            /\ Cardinality(subclassed') = 1]_vars

C7_Witness ==
    /\ streak = 2
    /\ call.ret = 1
    /\ <<call.aw, call.ah>> # lockArgs
    /\ g_aspect = FDiv(lockArgs[1], lockArgs[2])
    /\ g_aspect # FDiv(call.aw, call.ah)
    /\ subclassed = {g_hwnd}

(***************************************************************************)
(* C8                                                                      *)
(***************************************************************************)
\* C8: the installed flag changes only by an Install that found a window and
\* attached (to installed) and by Uninstall, which detaches (to uninstalled); an
\* Install that returns 0 leaves it uninstalled; Uninstall while uninstalled
\* changes nothing; IsInstalled returns 1 exactly when the callback is attached.
C8_InstalledFlag ==
    /\ [](/\ g_installed <=> subclassed # {}
          /\ g_installed => subclassed = {g_hwnd}
          /\ call.op = "IsInstalled" => (call.ret = 1 <=> subclassed # {}))
    /\ [][/\ (~g_installed /\ g_installed')
               => /\ call'.op = "Install"
                  /\ call'.ret = 1
                  /\ g_hwnd' \in Hwnds
                  /\ subclassed' = subclassed \cup {g_hwnd'}
          /\ (g_installed /\ ~g_installed')
               => call'.op = "Uninstall" /\ subclassed' = {}
          /\ (call'.op = "Install" /\ call'.ret = 0)
               => ~g_installed /\ ~g_installed'
          /\ (call'.op = "Install" /\ g_installed) => g_installed'
          /\ (call'.op = "Uninstall" /\ ~g_installed) => UNCHANGED <<lock, lockArgs>>
         ]_vars

C8_Witness ==
    /\ call.op = "IsInstalled"
    /\ call.ret = 1
    /\ subclassed = {g_hwnd}

(***************************************************************************)
(* C9                                                                      *)
(***************************************************************************)
\* C9: the correction of an already corrected rect, for the same edge and the
\* same ratio, changes no edge.
C9_SecondPassFixed == (Done /\ msg.pass = 2) => msg.rect = msg.cand

\* a corner drag corrected twice, the two passes driven by different dimensions
C9_Witness ==
    /\ Done
    /\ msg.pass = 2
    /\ msg.edge \in Corners
    /\ msg.orig # msg.cand
    /\ DriveByWidth(Width(msg.orig), Height(msg.orig))
    /\ ~DriveByWidth(CandW, CandH)
    /\ msg.rect = msg.cand

(***************************************************************************)
(* C10                                                                     *)
(***************************************************************************)
\* the products below stay within 31 bits
InRange == IntLock /\ (AW <= 16 \/ CandH < 100) /\ (AH <= 16 \/ CandW < 100)
AtRatio == CandW * AH = CandH * AW

====
